---- MODULE Spec2Model ----
(***************************************************************************)
(* Model of maskcam/mqtt_common.py: the bounded outbox mqtt_msg_queue, the *)
(* drain mqtt_send_queue, the publish entry point mqtt_send_msg and the    *)
(* on-connect callback installed by mqtt_connect_broker.                   *)
(*                                                                         *)
(* mqtt_send_queue and mqtt_send_msg call each other, so every thread has  *)
(* a call stack of frames.  One action is one stretch of a function's code *)
(* that touches shared state (the queue, the transport) at most once; the  *)
(* threads are the paho network loop thread, which runs cb_on_connect, and *)
(* the producer threads, which call mqtt_send_msg.  The Queue operations   *)
(* empty(), full(), get_nowait() and put_nowait() are each one atomic      *)
(* step; get_nowait on an empty queue raises Empty and put_nowait on a     *)
(* full one raises Full, and nothing in the module catches either.         *)
(***************************************************************************)
EXTENDS Naturals, Sequences, FiniteSets, TLC

\* Bounds of the model.  The source sets maxsize=100 (line 22); the model
\* scales it down.  MaxCalls bounds the number of top-level calls: producer
\* calls of mqtt_send_msg plus connect acknowledgments.
QueueMaxSize == 2
MaxCalls == 4

Producers == {"main"}
LoopThread == "loop"
Threads == Producers \cup {LoopThread}

VARIABLES
    mqtt_msg_queue,  \* the outbox: sequence of message ids, head first
    stack,           \* per thread: its call stack, innermost frame last
    ret,             \* per thread: the return (or raise) it has just made
    delivered,       \* per message: number of publish() calls that returned 0
    events,          \* reported print events: <<msg, kind>>
    subscribed,      \* log of client.subscribe() calls (the list passed)
    cb_calls,        \* number of cb_success(client) invocations
    nextMsg,         \* id of the next message submitted by a producer
    connects,        \* number of connect acknowledgments delivered so far
    subscribe_to,    \* mqtt_connect_broker argument
    cb_success,      \* mqtt_connect_broker argument: TRUE iff not None
    singleCaller,    \* TRUE: calls never overlap (one thread of control)
    acks             \* what the connect acknowledgments with code 0 left

vars == <<mqtt_msg_queue, stack, ret, delivered, events, subscribed, cb_calls,
          nextMsg, connects, subscribe_to, cb_success, singleCaller, acks>>

----------------------------------------------------------------------------
\* multiprocessing.Queue(maxsize=QueueMaxSize), as the code uses it

QueueEmpty(q) == q = <<>>

\* a queue built without maxsize: there is always room
QueueRoomUnbounded(q) == Len(q) + 1

\* free slots of the queue (maxsize less the items it holds)
QueueRoom(q) == QueueMaxSize - Len(q)

QueueFull(q) == QueueRoom(q) = 0

\* put_nowait: TRUE iff the put is accepted (otherwise it raises Full)
QueueAccepts(q) == QueueRoom(q) > 0

----------------------------------------------------------------------------
\* Print events and their severity (the error= / warning= flag of the print)

Severity(kind) ==
    CASE kind = "DROPPED" -> "error"
      [] kind = "DISCARDED" -> "warning"
      [] kind = "QUEUE_SEND_FAILED" -> "warning"
      [] kind = "CONNECT_FAILED" -> "warning"
      [] OTHER -> "info"

----------------------------------------------------------------------------
\* Frames

\* q0 and att are history fields of the outermost frame of a thread: the
\* outbox when the drain of that call began and the <<msg, code>> of every
\* publish() the thread made during the call, in order.  They are recorded in
\* single-caller runs, where the order of a call's sends is well defined.
Frame(fn, pc, msg, enqueue) ==
    [fn |-> fn, pc |-> pc, msg |-> msg, enqueue |-> enqueue, success |-> TRUE,
     q0 |-> <<>>, att |-> <<>>]

Snapshot == IF singleCaller THEN mqtt_msg_queue ELSE <<>>

\* Message ids, and the topic the deployment subscribes to (line 14)
Msgs == 1..MaxCalls
MQTT_TOPIC_COMMANDS == "commands"
MQTT_TOPIC_FILES == "video-files"

\* Values of the subscribe_to argument of mqtt_connect_broker: None (the
\* default, as falsy as the empty list) or a list of topics
SubscriptionLists ==
    {<<>>, <<MQTT_TOPIC_COMMANDS>>, <<MQTT_TOPIC_FILES, MQTT_TOPIC_COMMANDS>>}

\* History of the connect acknowledgments with code 0: how many there were,
\* the messages that were in the outbox at the latest one and have not been
\* handed to publish() since and, while there are such messages, the id of
\* the first message submitted after that acknowledgment.
Acked(n, pending, next) ==
    [count |-> n, backlog |-> pending,
     nextMsg |-> IF pending = {} THEN 0 ELSE next]

NoAck == Acked(0, {}, 0)

Range(q) == {q[i] : i \in 1..Len(q)}

NoRet == [fn |-> "none", msg |-> 0, val |-> FALSE, out |-> "NONE",
          enqueue |-> FALSE]

RetOf(f, val, out) ==
    [fn |-> f.fn, msg |-> f.msg, val |-> val, out |-> out,
     enqueue |-> f.enqueue]

Top(t) == stack[t][Len(stack[t])]

Running(t) == stack[t] # <<>>

AtPc(t, fn, pc) == Running(t) /\ Top(t).fn = fn /\ Top(t).pc = pc

Crashed(t) == ret[t].fn = "raise"

\* A thread may enter a top-level call when it is idle and alive and, with a
\* single caller, when no other call is in progress.
CanStart(t) ==
    /\ ~Running(t)
    /\ ~Crashed(t)
    /\ singleCaller => \A u \in Threads : ~Running(u)

\* The caller's frame after the callee returned val to it: line 74 ignores
\* the value, line 30 assigns it to success, line 50 tests it.
Resume(c, val) ==
    CASE c.fn = "send_msg" -> [c EXCEPT !.pc = "publish"]
      [] c.fn = "send_queue" -> [c EXCEPT !.pc = "test", !.success = val]
      [] OTHER -> [c EXCEPT !.pc = "check", !.success = val]

\* The stack s after its innermost frame returned val.
Popped(s, val) ==
    LET n == Len(s)
    IN  IF n = 1 THEN <<>>
        ELSE [i \in 1..(n - 1) |->
                 IF i = n - 1 THEN Resume(s[i], val) ELSE s[i]]

\* The stack s with its innermost frame at pc.
Moved(s, pc) == [s EXCEPT ![Len(s)].pc = pc]

\* The stack s with a publish() call added to the log of the outermost frame.
Logged(s, m, code) ==
    IF singleCaller THEN [s EXCEPT ![1].att = Append(@, <<m, code>>)] ELSE s

\* The stack s after a call of mqtt_send_queue from its innermost frame
\* (line 26: success = True).
Called(s) == Append(s, Frame("send_queue", "test", 0, TRUE))

\* Thread t takes a step that leaves its stack s and its last return r.
Step(t, s, r) ==
    /\ stack' = [stack EXCEPT ![t] = s]
    /\ ret' = [ret EXCEPT ![t] = r]

\* return val from the innermost frame of t, having printed outcome out
Return(t, val, out) ==
    Step(t, Popped(stack[t], val), RetOf(Top(t), val, out))

\* an uncaught exception unwinds the whole stack of t
Raise(t, exc) ==
    Step(t, <<>>, [RetOf(Top(t), FALSE, exc) EXCEPT !.fn = "raise"])

Report(m, kind) == events' = events \cup {<<m, kind>>}

----------------------------------------------------------------------------
\* mqtt_send_msg(None, ...) taking the failure path of lines 83-89 instead of
\* the early return: the message is buffered, or dropped when the outbox is full
SendMsgAbsentBuffers(t, enqueue) ==
    /\ t \in Producers
    /\ CanStart(t)
    /\ nextMsg + connects <= MaxCalls
    /\ nextMsg' = nextMsg + 1
    /\ IF ~QueueFull(mqtt_msg_queue)
          THEN /\ Report(nextMsg, "ENQUEUED")
               /\ mqtt_msg_queue' = Append(mqtt_msg_queue, nextMsg)
               /\ Step(t, <<>>, RetOf(Frame("send_msg", "put", nextMsg, enqueue),
                                      FALSE, "ENQUEUED"))
          ELSE /\ Report(nextMsg, "DROPPED")
               /\ UNCHANGED mqtt_msg_queue
               /\ Step(t, <<>>, RetOf(Frame("send_msg", "full", nextMsg, enqueue),
                                      FALSE, "DROPPED"))
    /\ UNCHANGED <<delivered, subscribed, cb_calls, connects, subscribe_to,
                   cb_success, singleCaller,
                   acks>>

\* mqtt_send_msg(None, topic, message, enqueue): lines 69-71
SendMsgAbsent(t, enqueue) ==
    /\ t \in Producers
    /\ CanStart(t)
    /\ nextMsg + connects <= MaxCalls
    /\ nextMsg' = nextMsg + 1
    /\ Report(nextMsg, "SKIPPED")
    /\ Step(t, <<>>, RetOf(Frame("send_msg", "skip", nextMsg, enqueue),
                           FALSE, "SKIPPED"))
    /\ UNCHANGED <<mqtt_msg_queue, delivered, subscribed, cb_calls, connects,
                   subscribe_to, cb_success, singleCaller,
                   acks>>

\* mqtt_send_msg(client, topic, message, enqueue) up to the call of line 74
SendMsgLive(t, enqueue) ==
    /\ t \in Producers
    /\ CanStart(t)
    /\ nextMsg + connects <= MaxCalls
    /\ nextMsg' = nextMsg + 1
    /\ Step(t, Called(<<[Frame("send_msg", "drain", nextMsg, enqueue)
                            EXCEPT !.q0 = Snapshot]>>), NoRet)
    /\ UNCHANGED <<mqtt_msg_queue, delivered, events, subscribed, cb_calls,
                   connects, subscribe_to, cb_success, singleCaller,
                   acks>>

\* a drain whose loop body is never entered: it returns at once
DrainTestNoLoop(t) ==
    /\ AtPc(t, "send_queue", "test")
    /\ Step(t, Moved(stack[t], "return"), NoRet)
    /\ UNCHANGED <<mqtt_msg_queue, delivered, events, subscribed, cb_calls,
                   nextMsg, connects, subscribe_to, cb_success, singleCaller,
                   acks>>

\* mqtt_send_queue, line 27: the loop test
DrainTest(t) ==
    /\ AtPc(t, "send_queue", "test")
    /\ IF ~QueueEmpty(mqtt_msg_queue) /\ Top(t).success
          THEN Step(t, Moved(stack[t], "get"), NoRet)
          ELSE Step(t, Moved(stack[t], "return"), NoRet)
    /\ UNCHANGED <<mqtt_msg_queue, delivered, events, subscribed, cb_calls,
                   nextMsg, connects, subscribe_to, cb_success, singleCaller,
                   acks>>

\* the drain resending with enqueue=False: a failed message is not put back
DrainGetNoRequeue(t) ==
    /\ AtPc(t, "send_queue", "get")
    /\ IF QueueEmpty(mqtt_msg_queue)
          THEN /\ Raise(t, "Empty")
               /\ UNCHANGED <<mqtt_msg_queue, events>>
          ELSE LET q_msg == Head(mqtt_msg_queue)
                   me == [Top(t) EXCEPT !.pc = "call", !.msg = q_msg]
                   s == [stack[t] EXCEPT ![Len(stack[t])] = me]
               IN  /\ mqtt_msg_queue' = Tail(mqtt_msg_queue)
                   /\ Report(q_msg, "RESENDING")
                   /\ Step(t, Called(Append(s,
                              Frame("send_msg", "drain", q_msg, FALSE))), NoRet)
    /\ UNCHANGED <<delivered, subscribed, cb_calls, nextMsg, connects,
                   subscribe_to, cb_success, singleCaller,
                   acks>>

\* the drain reading the head of the queue without removing it
DrainGetPeek(t) ==
    /\ AtPc(t, "send_queue", "get")
    /\ IF QueueEmpty(mqtt_msg_queue)
          THEN /\ Raise(t, "Empty")
               /\ UNCHANGED events
          ELSE LET q_msg == Head(mqtt_msg_queue)
                   me == [Top(t) EXCEPT !.pc = "call", !.msg = q_msg]
                   s == [stack[t] EXCEPT ![Len(stack[t])] = me]
               IN  /\ Report(q_msg, "RESENDING")
                   /\ Step(t, Called(Append(s,
                              Frame("send_msg", "drain", q_msg, TRUE))), NoRet)
    /\ UNCHANGED <<mqtt_msg_queue, delivered, subscribed, cb_calls, nextMsg,
                   connects, subscribe_to, cb_success, singleCaller, acks>>

\* mqtt_send_queue, lines 28-30: get_nowait, then the call of mqtt_send_msg,
\* which itself first calls mqtt_send_queue (line 74)
DrainGet(t) ==
    /\ AtPc(t, "send_queue", "get")
    /\ IF QueueEmpty(mqtt_msg_queue)
          THEN /\ Raise(t, "Empty")
               /\ UNCHANGED <<mqtt_msg_queue, events>>
          ELSE LET q_msg == Head(mqtt_msg_queue)
                   me == [Top(t) EXCEPT !.pc = "call", !.msg = q_msg]
                   s == [stack[t] EXCEPT ![Len(stack[t])] = me]
               IN  /\ mqtt_msg_queue' = Tail(mqtt_msg_queue)
                   /\ Report(q_msg, "RESENDING")
                   /\ Step(t, Called(Append(s,
                              Frame("send_msg", "drain", q_msg, TRUE))), NoRet)
    /\ UNCHANGED <<delivered, subscribed, cb_calls, nextMsg, connects,
                   subscribe_to, cb_success, singleCaller,
                   acks>>

\* mqtt_send_queue, line 31
DrainReturn(t) ==
    /\ AtPc(t, "send_queue", "return")
    /\ Return(t, Top(t).success, "NONE")
    /\ UNCHANGED <<mqtt_msg_queue, delivered, events, subscribed, cb_calls,
                   nextMsg, connects, subscribe_to, cb_success, singleCaller,
                   acks>>

\* publish() whose success does not end the call: a sent message goes on to
\* the enqueue of the failure path
PublishSentFallsThrough(t) ==
    /\ AtPc(t, "send_msg", "publish")
    /\ \E code \in {0, 1} :
          LET m == Top(t).msg
              s == Logged(stack[t], m, code)
          IN  /\ acks' = Acked(acks.count, acks.backlog \ {m}, acks.nextMsg)
              /\ IF code = 0
                   THEN /\ delivered' = [delivered EXCEPT ![m] = @ + 1]
                        /\ Report(m, "SENT")
                        /\ Step(t, Moved(s, "full"), NoRet)
                   ELSE IF Top(t).enqueue
                           THEN /\ Step(t, Moved(s, "full"), NoRet)
                                /\ UNCHANGED <<delivered, events>>
                           ELSE /\ Report(m, "DISCARDED")
                                /\ Step(t, Popped(s, FALSE),
                                        RetOf(Top(t), FALSE, "DISCARDED"))
                                /\ UNCHANGED delivered
    /\ UNCHANGED <<mqtt_msg_queue, subscribed, cb_calls, nextMsg, connects,
                   subscribe_to, cb_success, singleCaller>>

\* mqtt_send_msg, lines 76-82 and 90-92: the transport publish and its result
Publish(t) ==
    /\ AtPc(t, "send_msg", "publish")
    /\ \E code \in {0, 1} :
          LET m == Top(t).msg
              s == Logged(stack[t], m, code)
          IN  /\ acks' = Acked(acks.count, acks.backlog \ {m}, acks.nextMsg)
              /\ IF code = 0
                   THEN /\ delivered' = [delivered EXCEPT ![m] = @ + 1]
                        /\ Report(m, "SENT")
                        /\ Step(t, Popped(s, TRUE), RetOf(Top(t), TRUE, "SENT"))
                   ELSE IF Top(t).enqueue
                           THEN /\ Step(t, Moved(s, "full"), NoRet)
                                /\ UNCHANGED <<delivered, events>>
                           ELSE /\ Report(m, "DISCARDED")
                                /\ Step(t, Popped(s, FALSE),
                                        RetOf(Top(t), FALSE, "DISCARDED"))
                                /\ UNCHANGED delivered
    /\ UNCHANGED <<mqtt_msg_queue, subscribed, cb_calls, nextMsg, connects,
                   subscribe_to, cb_success, singleCaller>>

\* mqtt_send_msg, lines 83-84 and 86-89, 92: the full() test
CheckFull(t) ==
    /\ AtPc(t, "send_msg", "full")
    /\ IF ~QueueFull(mqtt_msg_queue)
          THEN /\ Report(Top(t).msg, "ENQUEUED")
               /\ Step(t, Moved(stack[t], "put"), NoRet)
          ELSE /\ Report(Top(t).msg, "DROPPED")
               /\ Return(t, FALSE, "DROPPED")
    /\ UNCHANGED <<mqtt_msg_queue, delivered, subscribed, cb_calls, nextMsg,
                   connects, subscribe_to, cb_success, singleCaller,
                   acks>>

\* mqtt_send_msg, lines 85 and 92: put_nowait
Put(t) ==
    /\ AtPc(t, "send_msg", "put")
    /\ IF QueueAccepts(mqtt_msg_queue)
          THEN /\ mqtt_msg_queue' = Append(mqtt_msg_queue, Top(t).msg)
               /\ Return(t, FALSE, "ENQUEUED")
          ELSE /\ Raise(t, "Full")
               /\ UNCHANGED mqtt_msg_queue
    /\ UNCHANGED <<delivered, events, subscribed, cb_calls, nextMsg, connects,
                   subscribe_to, cb_success, singleCaller,
                   acks>>

\* cb_on_connect(client, userdata, flags, code): lines 42-43 and 54-55
ConnectAck(code) ==
    /\ CanStart(LoopThread)
    /\ nextMsg + connects <= MaxCalls
    /\ connects' = connects + 1
    /\ IF code = 0
          THEN /\ Report(0, "CONNECTED")
               /\ Step(LoopThread,
                       <<Frame("cb_on_connect", "subscribe", 0, TRUE)>>, NoRet)
               /\ acks' = Acked(acks.count + 1, Range(mqtt_msg_queue), nextMsg)
          ELSE /\ Report(0, "CONNECT_FAILED")
               /\ Step(LoopThread, <<>>,
                       RetOf(Frame("cb_on_connect", "else", 0, TRUE),
                             FALSE, "CONNECT_FAILED"))
               /\ UNCHANGED acks
    /\ UNCHANGED <<mqtt_msg_queue, delivered, subscribed, cb_calls, nextMsg,
                   subscribe_to, cb_success, singleCaller>>

\* subscribing on the first connection only, not after a reconnect
SubscribeOnce(t) ==
    /\ AtPc(t, "cb_on_connect", "subscribe")
    /\ subscribed' = IF subscribe_to # <<>> /\ subscribed = <<>>
                        THEN Append(subscribed, subscribe_to)
                        ELSE subscribed
    /\ Step(t, Moved(stack[t], "cb_success"), NoRet)
    /\ UNCHANGED <<mqtt_msg_queue, delivered, events, cb_calls, nextMsg,
                   connects, subscribe_to, cb_success, singleCaller,
                   acks>>

\* cb_on_connect, lines 44-47
Subscribe(t) ==
    /\ AtPc(t, "cb_on_connect", "subscribe")
    /\ subscribed' = IF subscribe_to # <<>>
                        THEN Append(subscribed, subscribe_to)
                        ELSE subscribed
    /\ Step(t, Moved(stack[t], "cb_success"), NoRet)
    /\ UNCHANGED <<mqtt_msg_queue, delivered, events, cb_calls, nextMsg,
                   connects, subscribe_to, cb_success, singleCaller,
                   acks>>

\* the drain called first, the success callback left for later
CbSuccessDeferred(t) ==
    /\ AtPc(t, "cb_on_connect", "cb_success")
    /\ Step(t, Called(<<[Top(t) EXCEPT !.pc = "drain",
                                       !.q0 = Snapshot]>>), NoRet)
    /\ UNCHANGED <<mqtt_msg_queue, delivered, events, subscribed, cb_calls,
                   nextMsg, connects, subscribe_to, cb_success, singleCaller,
                   acks>>

\* cb_on_connect, lines 48-50: the success callback, then the call of the drain
CbSuccess(t) ==
    /\ AtPc(t, "cb_on_connect", "cb_success")
    /\ cb_calls' = IF cb_success THEN cb_calls + 1 ELSE cb_calls
    /\ Step(t, Called(<<[Top(t) EXCEPT !.pc = "drain",
                                       !.q0 = Snapshot]>>), NoRet)
    /\ UNCHANGED <<mqtt_msg_queue, delivered, events, subscribed, nextMsg,
                   connects, subscribe_to, cb_success, singleCaller,
                   acks>>

\* cb_on_connect, lines 50-53: the drain's result
DrainChecked(t) ==
    /\ AtPc(t, "cb_on_connect", "check")
    /\ IF Top(t).success
          THEN /\ Return(t, TRUE, "NONE")
               /\ UNCHANGED events
          ELSE /\ Report(0, "QUEUE_SEND_FAILED")
               /\ Return(t, FALSE, "QUEUE_SEND_FAILED")
    /\ UNCHANGED <<mqtt_msg_queue, delivered, subscribed, cb_calls, nextMsg,
                   connects, subscribe_to, cb_success, singleCaller,
                   acks>>

\* cb_on_disconnect(client, userdata, code): line 58
Disconnect ==
    /\ CanStart(LoopThread)
    /\ Report(0, "DISCONNECTED")
    /\ Step(LoopThread, <<>>,
            RetOf(Frame("cb_on_disconnect", "print", 0, TRUE), TRUE, "DISCONNECTED"))
    /\ UNCHANGED <<mqtt_msg_queue, delivered, subscribed, cb_calls, nextMsg,
                   connects, subscribe_to, cb_success, singleCaller,
                   acks>>

----------------------------------------------------------------------------
Init ==
    /\ mqtt_msg_queue = <<>>
    /\ stack = [t \in Threads |-> <<>>]
    /\ ret = [t \in Threads |-> NoRet]
    /\ delivered = [m \in Msgs |-> 0]
    /\ events = {}
    /\ subscribed = <<>>
    /\ cb_calls = 0
    /\ nextMsg = 1
    /\ connects = 0
    /\ subscribe_to = <<MQTT_TOPIC_COMMANDS>>
    /\ cb_success = TRUE
    /\ singleCaller \in BOOLEAN
    /\ acks = NoAck

Next ==
    \/ \E t \in Producers, enqueue \in BOOLEAN : SendMsgAbsent(t, enqueue)
    \/ \E t \in Producers, enqueue \in BOOLEAN : SendMsgLive(t, enqueue)
    \/ \E t \in Threads : DrainTest(t)
    \/ \E t \in Threads : DrainGet(t)
    \/ \E t \in Threads : DrainReturn(t)
    \/ \E t \in Threads : Publish(t)
    \/ \E t \in Threads : CheckFull(t)
    \/ \E t \in Threads : Put(t)
    \/ \E code \in {0, 5} : ConnectAck(code)
    \/ Subscribe(LoopThread)
    \/ CbSuccess(LoopThread)
    \/ DrainChecked(LoopThread)
    \/ Disconnect

Spec == Init /\ [][Next]_vars

\* The same program with every choice of the optional arguments of
\* mqtt_connect_broker (lines 38-39, both None by default).  Runs with
\* overlapping calls take the arguments of Init.
InitConfig ==
    /\ mqtt_msg_queue = <<>>
    /\ stack = [t \in Threads |-> <<>>]
    /\ ret = [t \in Threads |-> NoRet]
    /\ delivered = [m \in Msgs |-> 0]
    /\ events = {}
    /\ subscribed = <<>>
    /\ cb_calls = 0
    /\ nextMsg = 1
    /\ connects = 0
    /\ subscribe_to \in SubscriptionLists
    /\ cb_success \in BOOLEAN
    /\ singleCaller \in BOOLEAN
    /\ singleCaller \/ (subscribe_to = <<MQTT_TOPIC_COMMANDS>> /\ cb_success)
    /\ acks = NoAck

SpecConfig == InitConfig /\ [][Next]_vars

\* A step of the call thread t is running
ThreadStep(t) ==
    \/ DrainTest(t)
    \/ DrainGet(t)
    \/ DrainReturn(t)
    \/ Publish(t)
    \/ CheckFull(t)
    \/ Put(t)
    \/ (t = LoopThread /\ (Subscribe(t) \/ CbSuccess(t) \/ DrainChecked(t)))

\* The program with one thread of control.  A thread that is inside a call
\* keeps running: no statement of the module blocks (the Queue methods used
\* are the non-blocking ones) and publish() returns.
InitSingle == Init /\ singleCaller

SpecSingle ==
    InitSingle /\ [][Next]_vars /\ \A t \in Threads : WF_vars(ThreadStep(t))

----------------------------------------------------------------------------
\* Vocabulary of the properties

Idle == \A t \in Threads : ~Running(t)

Submitted == 1..(nextMsg - 1)

InOutbox(m) == \E i \in 1..Len(mqtt_msg_queue) : mqtt_msg_queue[i] = m

Reported(m, kind) == <<m, kind>> \in events

\* m is reported as kind once the step is taken
ReportedNext(m, kind) == <<m, kind>> \in events'

SentOk(m) == delivered[m] >= 1

\* a producer call made with an absent client handle is the one call that
\* begins and ends in a single step
AbsentCall(t) ==
    /\ nextMsg' = nextMsg + 1
    /\ stack[t] = <<>>
    /\ stack'[t] = <<>>
    /\ ret'[t].msg = nextMsg

\* thread t returns from fn in this step
Returns(t, fn) == ret'[t] # ret[t] /\ ret'[t].fn = fn

\* the messages of a publish log, in order
LogMsgs(att) == [i \in 1..Len(att) |-> att[i][1]]

IsPrefix(a, b) == Len(a) <= Len(b) /\ \A i \in 1..Len(a) : a[i] = b[i]

\* a keeps the relative order its elements have in b
KeepsOrder(a, b) ==
    \A i, j \in 1..Len(a) :
        i < j => \E k, l \in 1..Len(b) : k < l /\ b[k] = a[i] /\ b[l] = a[j]

Failures(att) == {i \in 1..Len(att) : att[i][2] # 0}

FirstFailure(att) == CHOOSE i \in Failures(att) : \A j \in Failures(att) : i <= j

IndexIn(q, m) == CHOOSE i \in 1..Len(q) : q[i] = m

\* the number of publish() calls a publish log holds for message m
Attempts(att, m) == Cardinality({i \in 1..Len(att) : att[i][1] = m})

----------------------------------------------------------------------------
\* C1: whenever no publish or drain call is in progress, every message that
\* was submitted with a live client handle is in exactly one condition: sent
\* with code 0, present in the outbox, or reported DROPPED or DISCARDED.
C1_NoSilentLoss ==
    Idle =>
        \A m \in Submitted :
            ~Reported(m, "SKIPPED") =>
                \/ SentOk(m) /\ ~InOutbox(m) /\ ~Reported(m, "DROPPED")
                             /\ ~Reported(m, "DISCARDED")
                \/ ~SentOk(m) /\ InOutbox(m) /\ ~Reported(m, "DROPPED")
                              /\ ~Reported(m, "DISCARDED")
                \/ ~SentOk(m) /\ ~InOutbox(m)
                              /\ (Reported(m, "DROPPED") \/ Reported(m, "DISCARDED"))

\* C2: the outbox never holds more than its capacity, and no step stores a
\* message into a full outbox.
C2_Capacity ==
    /\ [](Len(mqtt_msg_queue) <= QueueMaxSize)
    /\ [][Len(mqtt_msg_queue) = QueueMaxSize =>
             (mqtt_msg_queue' = mqtt_msg_queue
                \/ mqtt_msg_queue' = Tail(mqtt_msg_queue))]_vars

\* C2 witness: the outbox is full and a message has just been refused.
C2_Witness ==
    /\ Len(mqtt_msg_queue) = QueueMaxSize
    /\ \E t \in Threads : ret[t].out = "DROPPED"

\* C3: the sends made by an on-connect drain that began with outbox m1..mk
\* are made in the order m1, m2, ..., mk.
C3_FifoDrainOrder ==
    singleCaller =>
        (Running(LoopThread) /\ stack[LoopThread][1].fn = "cb_on_connect"
            => IsPrefix(LogMsgs(stack[LoopThread][1].att),
                        stack[LoopThread][1].q0))

\* C4: with a single caller, whenever the send of the new message of a
\* mqtt_send_msg call returns code 0, every message that was in the outbox
\* when the call began has been sent with code 0, and the messages left in
\* the outbox keep their relative order.
C4_NewAfterOld ==
    [][\A t \in Producers :
          (/\ singleCaller
           /\ Len(stack[t]) = 1
           /\ AtPc(t, "send_msg", "publish")
           /\ Returns(t, "send_msg")
           /\ ret'[t].val)
          => /\ \A i \in 1..Len(stack[t][1].q0) : delivered'[stack[t][1].q0[i]] >= 1
             /\ KeepsOrder(mqtt_msg_queue', stack[t][1].q0)]_vars

\* C5: when an on-connect drain that began with outbox m1..mk has returned
\* and mj was the first send to fail, that send was the drain's last and the
\* outbox is mj..mk in the original order.
C5_PartialDrain ==
    (/\ singleCaller
     /\ AtPc(LoopThread, "cb_on_connect", "check")
     /\ Failures(Top(LoopThread).att) # {})
    => LET att == Top(LoopThread).att
           q0 == Top(LoopThread).q0
           i == FirstFailure(att)
           j == IndexIn(q0, att[i][1])
       IN  /\ i = Len(att)
           /\ mqtt_msg_queue = SubSeq(q0, j, Len(q0))

\* C6 as claimed: a call with an absent client, enqueue=True and room in the
\* outbox appends the message at the tail and reports ENQUEUED.
C6_AbsentEnqueues ==
    [][\A t \in Producers :
          (AbsentCall(t) /\ ret'[t].enqueue /\ ~QueueFull(mqtt_msg_queue))
          => /\ mqtt_msg_queue' = Append(mqtt_msg_queue, nextMsg)
             /\ ret'[t].out = "ENQUEUED"]_vars

\* C6 as amended: a call with an absent client, enqueue=True and room in the
\* outbox stores nothing: the outbox and the transport are untouched, the
\* call returns False and reports only that the message was skipped.
C6_AbsentSkips ==
    [][\A t \in Producers :
          (AbsentCall(t) /\ ret'[t].enqueue /\ ~QueueFull(mqtt_msg_queue))
          => /\ mqtt_msg_queue' = mqtt_msg_queue
             /\ delivered' = delivered
             /\ ret'[t].fn = "send_msg" /\ ~ret'[t].val
             /\ ret'[t].out = "SKIPPED"
             /\ events' = events \cup {<<nextMsg, "SKIPPED">>}]_vars

\* C6 witness: such a call has just returned, the outbox having room.
C6_Witness ==
    \E t \in Producers :
        /\ ~Running(t) /\ ret[t].fn = "send_msg" /\ ret[t].out = "SKIPPED"
        /\ ret[t].enqueue
        /\ mqtt_msg_queue # <<>> /\ ~QueueFull(mqtt_msg_queue)

\* C7: a call with an absent client and enqueue=False leaves the outbox as
\* it was, makes no transport send and returns False.
C7_AbsentNoEnqueueNoop ==
    [][\A t \in Producers :
          (AbsentCall(t) /\ ~ret'[t].enqueue)
          => /\ mqtt_msg_queue' = mqtt_msg_queue
             /\ delivered' = delivered
             /\ stack' = stack
             /\ ret'[t].fn = "send_msg" /\ ~ret'[t].val]_vars

\* C7 witness: such a call has just returned False, the outbox holding
\* messages.
C7_Witness ==
    \E t \in Producers :
        /\ ~Running(t) /\ ret[t].fn = "send_msg" /\ ret[t].out = "SKIPPED"
        /\ ~ret[t].enqueue /\ ~ret[t].val
        /\ mqtt_msg_queue # <<>>

\* C8 as claimed: a call with an absent client made when the outbox is full
\* leaves the outbox unchanged and reports DROPPED at error severity.
C8_AbsentFullDropped ==
    [][\A t \in Producers :
          (AbsentCall(t) /\ QueueFull(mqtt_msg_queue))
          => /\ mqtt_msg_queue' = mqtt_msg_queue
             /\ ret'[t].out = "DROPPED"
             /\ ReportedNext(nextMsg, "DROPPED")
             /\ Severity(ret'[t].out) = "error"]_vars

\* C8 as amended: a call with an absent client made when the outbox is full
\* leaves the outbox unchanged and returns False; it reports that the
\* message was skipped, below error severity, and no DROPPED event.
C8_AbsentFullSkipped ==
    [][\A t \in Producers :
          (AbsentCall(t) /\ QueueFull(mqtt_msg_queue))
          => /\ mqtt_msg_queue' = mqtt_msg_queue
             /\ ret'[t].fn = "send_msg" /\ ~ret'[t].val
             /\ ret'[t].out = "SKIPPED"
             /\ ReportedNext(nextMsg, "SKIPPED")
             /\ ~ReportedNext(nextMsg, "DROPPED")
             /\ Severity(ret'[t].out) # "error"]_vars

\* C8 witness: such a call has just returned, the outbox being full.
C8_Witness ==
    \E t \in Producers :
        /\ ~Running(t) /\ ret[t].fn = "send_msg" /\ ret[t].out = "SKIPPED"
        /\ QueueFull(mqtt_msg_queue)

\* C9: every mqtt_send_msg call with a live client ends by returning, with
\* exactly one outcome: True and SENT iff its publish returned 0; otherwise
\* False and ENQUEUED, the message appended at the tail, iff enqueue and the
\* outbox not full; DROPPED, nothing stored, iff enqueue and the outbox full;
\* DISCARDED, nothing stored, iff not enqueue.
C9_OutcomeClassification ==
    [][\A t \in Threads :
          /\ (Running(t) /\ ret'[t] # ret[t] /\ ret'[t].fn = "raise")
             => \A i \in 1..Len(stack[t]) : stack[t][i].fn # "send_msg"
          /\ (Running(t) /\ Returns(t, "send_msg"))
             => LET r == ret'[t]
                    m == Top(t).msg
                    sent == delivered'[m] = delivered[m] + 1
                IN  /\ r.msg = m
                    /\ r.out \in {"SENT", "ENQUEUED", "DROPPED", "DISCARDED"}
                    /\ ReportedNext(m, r.out)
                    /\ r.val <=> sent
                    /\ r.val <=> r.out = "SENT"
                    /\ ~sent => delivered' = delivered
                    /\ r.out = "ENQUEUED" <=>
                          (~r.val /\ Top(t).enqueue /\ ~QueueFull(mqtt_msg_queue))
                    /\ r.out = "DROPPED" <=>
                          (~r.val /\ Top(t).enqueue /\ QueueFull(mqtt_msg_queue))
                    /\ r.out = "DISCARDED" <=> (~r.val /\ ~Top(t).enqueue)
                    /\ mqtt_msg_queue' = IF r.out = "ENQUEUED"
                                            THEN Append(mqtt_msg_queue, m)
                                            ELSE mqtt_msg_queue
                    /\ Severity(r.out) = CASE r.out = "DROPPED" -> "error"
                                           [] r.out = "DISCARDED" -> "warning"
                                           [] OTHER -> "info"]_vars

\* C10 as claimed: mqtt_send_queue returns True iff the outbox is empty when
\* it returns, whoever else is calling.
C10_DrainResult ==
    [][\A t \in Threads :
          Returns(t, "send_queue")
          => (ret'[t].val <=> mqtt_msg_queue' = <<>>)]_vars

\* C10 as amended: with a single caller, mqtt_send_queue returns True iff
\* the outbox is empty when it returns.
C10_DrainResultSingleCaller ==
    [][\A t \in Threads :
          (singleCaller /\ Returns(t, "send_queue"))
          => (ret'[t].val <=> mqtt_msg_queue' = <<>>)]_vars

\* C10 witness: with a single caller, a drain has just returned False and
\* the outbox is not empty.
C10_Witness ==
    /\ singleCaller
    /\ \E t \in Threads :
          /\ ret[t].fn = "send_queue" /\ ~ret[t].val
          /\ mqtt_msg_queue # <<>>

\* C11: with a single caller, when the drain of an on-connect callback
\* (code 0) has returned and every publish() it made returned 0, the outbox
\* is empty, the drain returned True, and each message that was in the outbox
\* when the drain began was published exactly once, successfully, and nothing
\* else was published.
C11_ReconnectEmptiesBacklog ==
    (/\ singleCaller
     /\ AtPc(LoopThread, "cb_on_connect", "check")
     /\ Failures(Top(LoopThread).att) = {})
    => LET att == Top(LoopThread).att
           q0 == Top(LoopThread).q0
       IN  /\ mqtt_msg_queue = <<>>
           /\ Top(LoopThread).success
           /\ Len(att) = Len(q0)
           /\ \A m \in Range(q0) : Attempts(att, m) = 1 /\ delivered[m] = 1

\* C11 witness: such a drain began with a full outbox and has returned, every
\* publish() having returned 0.
C11_Witness ==
    /\ singleCaller
    /\ AtPc(LoopThread, "cb_on_connect", "check")
    /\ Failures(Top(LoopThread).att) = {}
    /\ Len(Top(LoopThread).q0) = QueueMaxSize
    /\ Len(Top(LoopThread).att) = QueueMaxSize

\* the subscribe calls and the success-callback invocations that k connect
\* acknowledgments with code 0 call for, given the arguments of
\* mqtt_connect_broker
SubscribesDue(k) == IF subscribe_to # <<>> THEN k ELSE 0

CallbacksDue(k) == IF cb_success THEN k ELSE 0

Subscribed == Len(subscribed) = SubscribesDue(acks.count)

CalledBack == cb_calls = CallbacksDue(acks.count)

\* the on-connect callback has called its drain, which has not yet returned
OnConnectDraining ==
    /\ Running(LoopThread)
    /\ stack[LoopThread][1].fn = "cb_on_connect"
    /\ \E i \in 1..Len(stack[LoopThread]) :
          stack[LoopThread][i].fn \in {"send_queue", "send_msg"}

\* C12: for each connect acknowledgment with code 0 the subscribe call (when
\* a subscription list was given) and the success callback (when one was
\* given) are made once each; the callback is invoked only after the
\* subscribe call, the drain is called only after both, so the on-connect
\* drain publishes nothing before them; and the step that finds the drain
\* failed only reports a warning and returns: it changes neither the outbox,
\* the subscriptions nor the connection, and reports no disconnect.
C12_OnConnectOrder ==
    /\ [](/\ Len(subscribed) <= SubscribesDue(acks.count)
          /\ cb_calls <= CallbacksDue(acks.count)
          /\ (cb_success /\ CalledBack) => Subscribed
          /\ OnConnectDraining => (Subscribed /\ CalledBack)
          /\ ~Running(LoopThread) => (Subscribed /\ CalledBack))
    /\ [][(/\ AtPc(LoopThread, "cb_on_connect", "check")
           /\ ~Top(LoopThread).success
           /\ stack'[LoopThread] # stack[LoopThread])
          => /\ events' = events \cup {<<0, "QUEUE_SEND_FAILED">>}
             /\ Severity("QUEUE_SEND_FAILED") = "warning"
             /\ ret'[LoopThread].fn = "cb_on_connect"
             /\ stack'[LoopThread] = <<>>
             /\ UNCHANGED <<mqtt_msg_queue, delivered, subscribed, cb_calls,
                            acks, connects>>]_vars

\* C12 witness: an on-connect callback given a subscription list and a
\* success callback has made both calls, its drain has published and failed,
\* and the callback has returned with the failure reported.
C12_Witness ==
    /\ ~Running(LoopThread)
    /\ ret[LoopThread].fn = "cb_on_connect"
    /\ ret[LoopThread].out = "QUEUE_SEND_FAILED"
    /\ subscribe_to # <<>> /\ cb_success
    /\ acks.count >= 1 /\ Subscribed /\ CalledBack
    /\ mqtt_msg_queue # <<>>

\* C13: every subscribe call made on the client passes exactly the list given
\* to mqtt_connect_broker; once the callback of a connect acknowledgment with
\* code 0 is past its subscribe step, one such call has been made for each
\* of those acknowledgments (none when no list was given); and no step, a
\* disconnect event in particular, changes the retained list or the calls
\* already made.
C13_SubscriptionsSurvive ==
    /\ [](/\ \A i \in 1..Len(subscribed) : subscribed[i] = subscribe_to
          /\ ~AtPc(LoopThread, "cb_on_connect", "subscribe")
                => Len(subscribed) = SubscribesDue(acks.count))
    /\ [][/\ subscribe_to' = subscribe_to
          /\ IsPrefix(subscribed, subscribed')
          /\ Returns(LoopThread, "cb_on_disconnect")
                => (subscribed' = subscribed /\ acks' = acks)]_vars

\* C13 witness: a list of two topics was given, a disconnect event was
\* delivered, and the callback of a second acknowledgment with code 0 has
\* returned, the list having been subscribed twice.
C13_Witness ==
    /\ Len(subscribe_to) = 2
    /\ Reported(0, "DISCONNECTED")
    /\ ~Running(LoopThread) /\ ret[LoopThread].fn = "cb_on_connect"
    /\ acks.count = 2
    /\ subscribed = <<subscribe_to, subscribe_to>>

\* C14: under every interleaving, a thread that executes get_nowait (line 28)
\* finds the outbox non-empty and a thread that executes put_nowait (line 85)
\* finds it not full, so that neither raises and no call ends in an
\* exception.
C14_NoExceptionEscapes ==
    [][\A t \in Threads :
          /\ (AtPc(t, "send_queue", "get") /\ stack'[t] # stack[t])
                => ~QueueEmpty(mqtt_msg_queue)
          /\ (AtPc(t, "send_msg", "put") /\ stack'[t] # stack[t])
                => ~QueueFull(mqtt_msg_queue)
          /\ ~Crashed(t) => ret'[t].fn # "raise"]_vars

\* the step is the delivery of a connect acknowledgment with a non-zero code
ConnectRefused ==
    connects' = connects + 1 /\ ret'[LoopThread].out = "CONNECT_FAILED"

\* C15: a connect acknowledgment with a non-zero code makes no subscribe
\* call, invokes no success callback, runs no drain and no publish, leaves
\* the outbox unchanged, the callback returning at once, and the failure is
\* reported at error severity.
C15_ConnectFailureNoEffects ==
    [][ConnectRefused
          => /\ subscribed' = subscribed
             /\ cb_calls' = cb_calls
             /\ delivered' = delivered
             /\ mqtt_msg_queue' = mqtt_msg_queue
             /\ acks' = acks
             /\ stack' = stack
             /\ ReportedNext(0, "CONNECT_FAILED")
             /\ Severity(ret'[LoopThread].out) = "error"]_vars

\* C16: every mqtt_send_msg call with a live client hands its own message to
\* publish() exactly once before it ends: when its drain returns, with True
\* or with False, the call goes on to publish(), and no call ends while it
\* is still in its drain or before its publish().
C16_OneAttemptPerCall ==
    [][\A t \in Threads :
          /\ \A i \in 1..Len(stack[t]) :
                (stack[t][i].fn = "send_msg" /\ Len(stack'[t]) < i)
                => /\ i = Len(stack[t])
                   /\ stack[t][i].pc \in {"publish", "full", "put"}
          /\ (/\ AtPc(t, "send_queue", "return")
              /\ Len(stack[t]) >= 2
              /\ stack[t][Len(stack[t]) - 1].fn = "send_msg"
              /\ stack'[t] # stack[t])
             => /\ Len(stack'[t]) = Len(stack[t]) - 1
                /\ stack'[t][Len(stack'[t])].pc = "publish"
          /\ (singleCaller /\ Len(stack[t]) = 1 /\ Top(t).fn = "send_msg")
             => Attempts(Top(t).att, Top(t).msg) =
                   IF Top(t).pc \in {"full", "put"} THEN 1 ELSE 0]_vars

\* C17: under every interleaving, as long as a message that was in the outbox
\* at the latest connect acknowledgment with code 0 has not been handed to
\* publish() since, no message submitted after that acknowledgment is handed
\* to publish().
C17_BacklogBeforeNewTraffic ==
    [][\A t \in Threads :
          (/\ AtPc(t, "send_msg", "publish")
           /\ stack'[t] # stack[t]
           /\ acks.backlog # {})
          => Top(t).msg < acks.nextMsg]_vars

\* the number of mqtt_send_queue activations on the stack of t
DrainDepth(t) ==
    Cardinality({i \in 1..Len(stack[t]) : stack[t][i].fn = "send_queue"})

RECURSIVE Pow2(_)
Pow2(n) == IF n = 0 THEN 1 ELSE 2 * Pow2(n - 1)

\* C18: with a single caller, every call of mqtt_send_msg and every
\* on-connect callback (hence every drain) returns; while it runs, the
\* drains nested in it number at most the messages the outbox held when its
\* drain began plus one, and its publish() calls at most 2^n for n such
\* messages.
C18_Terminates ==
    /\ \A t \in Threads : Running(t) ~> ~Running(t)
    /\ [](\A t \in Threads :
            Running(t) =>
               /\ DrainDepth(t) <= Len(stack[t][1].q0) + 1
               /\ Len(stack[t][1].att) <= Pow2(Len(stack[t][1].q0)))

\* C18 witness: a call that began with a full outbox has reached its deepest
\* nesting, one drain per message and one more.
C18_Witness ==
    \E t \in Threads :
        /\ Running(t)
        /\ Len(stack[t][1].q0) = QueueMaxSize
        /\ DrainDepth(t) = QueueMaxSize + 1

\* the messages thread t has dequeued and not yet sent or put back: those of
\* the mqtt_send_msg activations its drains have made
Held(t) ==
    Cardinality({i \in 2..Len(stack[t]) : stack[t][i].fn = "send_msg"})

\* the call thread t is running has called its drain
DrainBegun(t) ==
    Running(t) /\ stack[t][1].pc \notin {"subscribe", "cb_success"}

\* C19: with a single caller, the outbox and the messages a call has
\* dequeued and not yet resolved never number more than the outbox held when
\* the call's drain began, the full() test of a resend never finds the
\* outbox full, and once the call is over every message a drain dequeued is
\* sent or back in the outbox; with a concurrent producer, a dequeued message
\* that is neither is reported DROPPED.
C19_DrainKeepsBacklog ==
    /\ [](singleCaller =>
            \A t \in Threads :
               DrainBegun(t) =>
                  Len(mqtt_msg_queue) + Held(t) <= Len(stack[t][1].q0))
    /\ [][singleCaller =>
             \A t \in Threads :
                (AtPc(t, "send_msg", "full") /\ Len(stack[t]) > 1
                    /\ stack'[t] # stack[t])
                => ~QueueFull(mqtt_msg_queue)]_vars
    /\ [](Idle =>
            \A m \in Msgs :
               Reported(m, "RESENDING") =>
                  \/ SentOk(m)
                  \/ InOutbox(m)
                  \/ ~singleCaller /\ Reported(m, "DROPPED"))

\* the number of copies of message m the outbox holds
Copies(m) ==
    Cardinality({i \in 1..Len(mqtt_msg_queue) : mqtt_msg_queue[i] = m})

\* C20: under every interleaving, no message is published with code 0 more
\* than once, none is in the outbox more than once, and none is both
\* published with code 0 and in the outbox.
C20_NoDuplication ==
    \A m \in Msgs :
        /\ delivered[m] <= 1
        /\ Copies(m) <= 1
        /\ ~(SentOk(m) /\ InOutbox(m))

\* C20 witness: with a producer call and an on-connect drain both in
\* progress, a message taken back from the outbox has been published with
\* code 0 and another one is in the outbox.
C20_Witness ==
    /\ ~singleCaller
    /\ \A t \in Threads : Running(t)
    /\ mqtt_msg_queue # <<>>
    /\ \E m \in Msgs : Reported(m, "RESENDING") /\ delivered[m] = 1

====
